---------------------------- MODULE Spec2Model ----------------------------
(***************************************************************************)
(* A model of gitlab_runner_config.py: one host reconciling its runner     *)
(* registrations on GitLab registries with a directory of executor         *)
(* declarations, and rendering config.toml from config.template.           *)
(*                                                                         *)
(* A run of configure_runners is a sequence of steps, one per registry     *)
(* request or local decision.  The registries are the environment: every   *)
(* request either is answered according to the registry's state or fails   *)
(* with an HTTP error, and the body of a 201 answer is an input.           *)
(***************************************************************************)
EXTENDS Integers, Sequences, FiniteSets, TLC

VARIABLES
    templates,        \* the declarations of the instance directory, in reading order
    config_template,  \* the field names config.template refers to
    modes,            \* st_mode permission bits of <<prefix, instance>>
    path_type,        \* type of the prefix and instance arguments: "Path" or "str"
    env,              \* [hostname, path]: socket.gethostname() and the launchers on PATH
    registry,         \* url -> the set of runner records the registry holds
    nextId,           \* the id the registries give to the next runner created
    config_file,      \* content of config.toml: field name -> rendered value
    run,              \* number of runs of configure_runners started
    pc,               \* position of the current run
    idx,              \* index in templates of the declaration being read
    data,             \* the dict of the declaration being read
    clients,          \* configure_runners' cache: url -> gitlab_client
    file_runners,     \* read_runner's local dict `runners` of the file being read
    runners,          \* configure_runners' dict `runners`
    todo,             \* ids that list_runners returned and runner_info has not fetched
    gitlab_tags,      \* tags gathered by list_gitlab_tags
    reg_args,         \* arguments of the pending register_runner call
    calls,            \* the registry requests issued in the current run
    registry0,        \* registry as it was when the current run started
    config0,          \* config_file as it was when the current run started
    outcomes          \* exit status of every finished run, oldest first

inputs == <<templates, config_template, modes, path_type, env>>
remote == <<registry, nextId>>
locals == <<idx, data, clients, file_runners, runners, todo, gitlab_tags, reg_args>>
snap   == <<registry0, config0>>
vars   == <<inputs, remote, config_file, run, pc, locals, calls, snap, outcomes>>

-----------------------------------------------------------------------------
(* Bounds *)

MaxRuns  == 2        \* runs of configure_runners in one behaviour
MaxDecls == 2        \* declarations in the instance directory

-----------------------------------------------------------------------------
(* Values *)

U1 == "https://gitlab.one/api/v4/"
U2 == "https://gitlab.two/api/v4/"
Urls == {U1, U2}

\* Python's None, and dict.get(key, "")
None == [None |-> TRUE]
IsNone(v) == "None" \in DOMAIN v
Get(d, k) == IF k \in DOMAIN d THEN d[k] ELSE ""

\* dict.update
Update(d, e) == [k \in DOMAIN d \cup DOMAIN e |-> IF k \in DOMAIN e THEN e[k] ELSE d[k]]
Del(d, ks) == [k \in DOMAIN d \ ks |-> d[k]]
EmptyDict == [k \in {} |-> ""]

ToSet(s) == {s[i] : i \in 1..Len(s)}

\* stat.S_IRWXU, stat.S_IRWXG as octal digits of st_mode
UserBits(mode)  == (mode \div 64) % 8
GroupBits(mode) == (mode \div 8) % 8

owner_only_permissions(mode) ==
    ~ (GroupBits(mode) # 0 /\ UserBits(mode) # 0)

-----------------------------------------------------------------------------
(* generate_tags *)

Digits == {"0", "1", "2", "3", "4", "5", "6", "7", "8", "9"}

\* re.sub(r"\d", "", s): every digit of s is removed
RECURSIVE StripDigits(_)
StripDigits(s) ==
    IF Len(s) = 0 THEN ""
    ELSE (IF SubSeq(s, 1, 1) \in Digits THEN "" ELSE SubSeq(s, 1, 1))
         \o StripDigits(SubSeq(s, 2, Len(s)))

which(cmd, path) == cmd \in path

\* generate_tags probing for salloc before bsub
generate_tags_SallocFirst(hostname, runner_type, path) ==
    LET tags == <<hostname, StripDigits(hostname)>>
    IN  IF runner_type = "batch"
        THEN IF which("salloc", path) THEN Append(tags, "slurm")
             ELSE IF which("bsub", path) THEN Append(tags, "lsf")
             ELSE IF which("cqsub", path) THEN Append(tags, "cobalt")
             ELSE tags
        ELSE tags

generate_tags(hostname, runner_type, path) ==
    LET tags == <<hostname, StripDigits(hostname)>>
    IN  IF runner_type = "batch"
        THEN IF which("bsub", path) THEN Append(tags, "lsf")
             ELSE IF which("salloc", path) THEN Append(tags, "slurm")
             ELSE IF which("cqsub", path) THEN Append(tags, "cobalt")
             ELSE tags
        ELSE tags

\* what register_runner sends: description and tag_list
Description(tags, runner_type) == tags[1] \o "-" \o runner_type
TagList(tags, runner_type) == ToSet(Append(tags, runner_type))


-----------------------------------------------------------------------------
(* The registries *)

\* the registration secret each registry accepts on POST /runners
Secret(url) == IF url = U1 THEN "s1" ELSE "s2"

\* GET /runners/all?tag_list=<tag>: the runners carrying the tag
ListMatching(url, tag) == {r.id : r \in {q \in registry[url] : tag \in q.tag_list}}

\* GET /runners/<id>
RunnerById(url, id) == CHOOSE r \in registry[url] : r.id = id

\* POST /runners/verify: the token is some runner's
TokenValid(url, token) == \E r \in registry[url] : r.token = token

\* the token a registry issues with runner id
IssuedToken(id) == "tok" \o ToString(id)

RECURSIVE Ascending(_)
Ascending(S) ==
    IF S = {} THEN <<>>
    ELSE LET m == CHOOSE x \in S : \A y \in S : x <= y
         IN  <<m>> \o Ascending(S \ {m})

\* a runner as register_runner makes the registry record it
Registered(id, hostname, runner_type, path) ==
    LET tags == generate_tags(hostname, runner_type, path)
    IN  [id |-> id, description |-> Description(tags, runner_type),
         token |-> IssuedToken(id), tag_list |-> TagList(tags, runner_type)]

\* an entry of the request log
Call(op, url, res) ==
    [op |-> op, url |-> url, res |-> res, decl |-> idx,
     id |-> 0, token |-> "", desc |-> "", secret |-> "", ret |-> {}]

HardError(c) == c.res = "error"

-----------------------------------------------------------------------------
(* The inputs *)

BaseDecl ==
    [name |-> "a", url |-> U1, executor |-> "shell", token |-> "",
     admin_token |-> "s1", access_token |-> "p1"]

\* the base declaration, its variations in one respect each, and a second
\* executor of another name and kind
DeclPool ==
    { BaseDecl,
      [BaseDecl EXCEPT !.name = "b"],
      [BaseDecl EXCEPT !.executor = "batch"],
      [BaseDecl EXCEPT !.name = "b", !.executor = "batch"],
      [BaseDecl EXCEPT !.token = "tok2"],
      [BaseDecl EXCEPT !.token = "stale"],
      [BaseDecl EXCEPT !.url = U2, !.admin_token = "s2"],
      [BaseDecl EXCEPT !.admin_token = "s2"],
      Del(BaseDecl, {"admin_token", "access_token"}) }

\* n declarations in files 1, 2, ... read in order
TemplatesOfLen(n) ==
    {t \in [1..n -> [file : 1..n, data : DeclPool]] :
        /\ n > 0 => t[1].file = 1
        /\ \A i \in 2..n : t[i].file \in {t[i-1].file, t[i-1].file + 1}}

TemplateSets == UNION {TemplatesOfLen(n) : n \in 0..MaxDecls}

Host == [hostname |-> "node03", path |-> {"salloc", "cqsub"}]

\* runners the registry U1 may hold before the first run: one of another host,
\* and two this host registered in the past (for "shell" and for "docker")
Foreign == [id |-> 1, description |-> "other-shell", token |-> "tok1",
            tag_list |-> {"other", "shell"}]
Own     == Registered(2, Host.hostname, "shell", Host.path)
Orphan  == Registered(3, Host.hostname, "docker", Host.path)

OldConfig == [k \in {"hostname", "a"} |-> IF k = "a" THEN "tok0" ELSE Host.hostname]

Init ==
    /\ templates \in TemplateSets
    /\ config_template \in {{"hostname", "a"}, {"hostname", "a", "b"}}
    /\ modes \in {<<448, 448>>, <<488, 448>>}
    /\ path_type \in {"Path", "str"}
    /\ env = Host
    /\ \E S \in SUBSET {Own, Orphan} :
          registry = [u \in Urls |-> IF u = U1 THEN {Foreign} \cup S ELSE {}]
    /\ nextId = 4
    /\ config_file = OldConfig
    /\ run = 0
    /\ pc = "idle"
    /\ idx = 1
    /\ data = EmptyDict
    /\ clients = EmptyDict
    /\ file_runners = EmptyDict
    /\ runners = EmptyDict
    /\ todo = <<>>
    /\ gitlab_tags = {}
    /\ reg_args = [runner_type |-> "", none |-> TRUE, tags |-> <<>>]
    /\ calls = <<>>
    /\ registry0 = registry
    /\ config0 = config_file
    /\ outcomes = <<>>

-----------------------------------------------------------------------------
(* configure_runners *)

\* sys.exit(1), an uncaught exception, or the return of configure_runners
Goto(label) ==
    /\ pc' = label
    /\ outcomes' = IF label \in {"done", "failed"} THEN Append(outcomes, label)
                   ELSE outcomes

StartRun ==
    /\ pc \in {"idle", "done", "failed"}
    /\ run < MaxRuns
    /\ run' = run + 1
    /\ pc' = "perm"
    /\ idx' = 1
    /\ data' = EmptyDict
    /\ clients' = EmptyDict
    /\ file_runners' = EmptyDict
    /\ runners' = EmptyDict
    /\ todo' = <<>>
    /\ gitlab_tags' = {}
    /\ reg_args' = [runner_type |-> "", none |-> TRUE, tags |-> <<>>]
    /\ calls' = <<>>
    /\ registry0' = registry
    /\ config0' = config_file
    /\ UNCHANGED <<inputs, remote, config_file, outcomes>>

\* path.stat() exists for a pathlib.Path; the strings argparse delivers have no
\* stat attribute and the call raises AttributeError
PermissionsOk ==
    /\ path_type = "Path"
    /\ \A i \in 1..2 : owner_only_permissions(modes[i])

\* configure_runners logging the permission error and reading on
PermissionNext_NoExit(ok) == "read"

\* configure_runners after the permission check: sys.exit(1) unless it passed
PermissionNext(ok) == IF ok THEN "read" ELSE "failed"

CheckPermissions ==
    /\ pc = "perm"
    /\ Goto(PermissionNext(PermissionsOk))
    /\ UNCHANGED <<inputs, remote, config_file, run, locals, calls, snap>>

\* read_runner: the next item of runner_config, or the end of the directory
ReadDecl ==
    /\ pc = "read"
    /\ IF idx > Len(templates)
       THEN Goto("config") /\ UNCHANGED data
       ELSE LET d == templates[idx].data
            IN  IF Get(d, "name") \in DOMAIN file_runners
                THEN Goto("failed") /\ UNCHANGED data
                ELSE Goto("client") /\ data' = d
    /\ UNCHANGED <<inputs, remote, config_file, run, idx, clients, file_runners,
                   runners, todo, gitlab_tags, reg_args, calls, snap>>

CreateClient ==
    /\ pc = "client"
    /\ LET url == Get(data, "url")
       IN  IF url \in DOMAIN clients
           THEN Goto("list") /\ UNCHANGED <<data, clients>>
           ELSE IF {"admin_token", "access_token"} \subseteq DOMAIN data
           THEN /\ clients' = Update(clients, url :>
                       [base_url |-> url, admin_token |-> data.admin_token,
                        access_token |-> data.access_token])
                /\ data' = Del(data, {"admin_token", "access_token"})
                /\ Goto("list")
           ELSE /\ data' = IF "admin_token" \in DOMAIN data
                           THEN Del(data, {"admin_token"}) ELSE data
                /\ Goto("failed")
                /\ UNCHANGED clients
    /\ UNCHANGED <<inputs, remote, config_file, run, idx, file_runners, runners,
                   todo, gitlab_tags, reg_args, calls, snap>>

\* update_runner's client and arguments for the declaration being read
CurUrl  == Get(data, "url")
CurType == Get(data, "executor")
CurTok  == Get(data, "token")

\* read_runner stores what update_runner returned and goes on to the next item;
\* after the last item of a file it returns and configure_runners merges its dict
StoreResult(res) ==
    LET fr   == Update(file_runners, Get(data, "name") :> res)
        last == idx = Len(templates) \/ templates[idx + 1].file # templates[idx].file
    IN  /\ file_runners' = IF last THEN EmptyDict ELSE fr
        /\ runners' = IF last THEN Update(runners, fr) ELSE runners
        /\ idx' = idx + 1
        /\ Goto("read")

\* list_runners returning an empty list on an HTTP error instead of exiting
ListNext_SwallowError(outcome, ids) ==
    IF outcome = "error" \/ ids = <<>> THEN "update" ELSE "get"

\* list_gitlab_tags going on without the detail of the runners listed
ListNext_NoFetch(outcome, ids) ==
    IF outcome = "error" THEN "failed" ELSE "update"

\* list_gitlab_tags after list_runners answered: exit on an HTTP error, else
\* fetch the detail of every runner listed
ListNext(outcome, ids) ==
    IF outcome = "error" THEN "failed"
    ELSE IF ids = <<>> THEN "update" ELSE "get"

ListRunners ==
    /\ pc = "list"
    /\ \E outcome \in {"ok", "error"} :
          LET ids == IF outcome = "ok"
                     THEN Ascending(ListMatching(CurUrl, env.hostname)) ELSE <<>>
          IN  /\ calls' = Append(calls, [Call("list", CurUrl, outcome)
                                           EXCEPT !.ret = ToSet(ids)])
              /\ todo' = ids
              /\ gitlab_tags' = {}
              /\ Goto(ListNext(outcome, ids))
    /\ UNCHANGED <<inputs, remote, config_file, run, idx, data, clients,
                   file_runners, runners, reg_args, snap>>

\* runner_info of the next listed runner
InfoNext(outcome, rest) ==
    IF outcome = "error" THEN "failed"
    ELSE IF rest = <<>> THEN "update" ELSE "get"

RunnerInfo ==
    /\ pc = "get"
    /\ \E outcome \in {"ok", "error"} :
          /\ calls' = Append(calls, [Call("get", CurUrl, outcome)
                                       EXCEPT !.id = Head(todo)])
          /\ IF outcome = "ok"
             THEN /\ gitlab_tags' = gitlab_tags \cup RunnerById(CurUrl, Head(todo)).tag_list
                  /\ todo' = Tail(todo)
             ELSE UNCHANGED <<gitlab_tags, todo>>
          /\ Goto(InfoNext(outcome, Tail(todo)))
    /\ UNCHANGED <<inputs, remote, config_file, run, idx, data, clients,
                   file_runners, runners, reg_args, snap>>

\* update_runner registering whatever the discovery found
update_runner_next_AlwaysRegister(runner_type, tags, token) ==
    "register"

\* update_runner's choice, and update_runner_token's first test
update_runner_next(runner_type, tags, token) ==
    IF runner_type \notin tags THEN "register"
    ELSE IF token = "" THEN "reregister"
    ELSE "verify"

UpdateRunner ==
    /\ pc = "update"
    /\ LET next == update_runner_next(CurType, gitlab_tags, CurTok)
       IN  /\ reg_args' =
                 IF next = "register"
                 THEN [runner_type |-> CurType, none |-> FALSE,
                       tags |-> generate_tags(env.hostname, CurType, env.path)]
                 ELSE [runner_type |-> CurType, none |-> TRUE, tags |-> <<>>]
           /\ Goto(IF next = "reregister" THEN "register" ELSE next)
    /\ UNCHANGED <<inputs, remote, config_file, run, idx, data, clients,
                   file_runners, runners, todo, gitlab_tags, calls, snap>>

\* the answer to POST /runners/verify: 200, 403 for a token the registry does
\* not know, or another HTTP error
VerifyResponse(outcome, url, token) ==
    IF outcome = "error" THEN "error"
    ELSE IF TokenValid(url, token) THEN "ok" ELSE "403"

\* valid_runner_token taking every HTTP error for an invalid token
valid_runner_token_FalseOnAnyError(res) ==
    IF res = "ok" THEN "True" ELSE "False"

\* valid_runner_token: True, False on 403, sys.exit(1) on any other HTTP error
valid_runner_token(res) ==
    IF res = "ok" THEN "True"
    ELSE IF res = "403" THEN "False"
    ELSE "exit"

\* valid_runner_token, and update_runner_token returning None for a valid token
ValidRunnerToken ==
    /\ pc = "verify"
    /\ \E outcome \in {"answer", "error"} :
          LET res == VerifyResponse(outcome, CurUrl, CurTok)
              ret == valid_runner_token(res)
          IN  /\ calls' = Append(calls, [Call("verify", CurUrl, res)
                                           EXCEPT !.token = CurTok])
              /\ IF ret = "True"
                 THEN StoreResult(None)
                 ELSE /\ Goto(IF ret = "False" THEN "delete" ELSE "failed")
                      /\ UNCHANGED <<idx, file_runners, runners>>
    /\ UNCHANGED <<inputs, remote, config_file, run, data, clients, todo,
                   gitlab_tags, reg_args, snap>>

\* delete_runner(token) in update_runner_token; the registry answers 204 or an error
DeleteRunner ==
    /\ pc = "delete"
    /\ \E outcome \in {"ok", "error"} :
          /\ calls' = Append(calls, [Call("delete", CurUrl, outcome)
                                       EXCEPT !.token = CurTok])
          /\ registry' = IF outcome = "ok"
                         THEN [registry EXCEPT ![CurUrl] =
                                  {r \in @ : r.token # CurTok}]
                         ELSE registry
          /\ Goto(IF outcome = "ok" THEN "register" ELSE "failed")
    /\ UNCHANGED <<inputs, nextId, config_file, run, locals, snap>>

\* the body of the 201 answer to POST /runners
ResponseBody(outcome, id) ==
    IF outcome = "token" THEN [id |-> id, token |-> IssuedToken(id)]
    ELSE IF outcome = "empty" THEN [id |-> id, token |-> ""]
    ELSE [id |-> id]

\* register_runner(runner_type, tags): tags[0] of None raises TypeError before
\* any request is made
RegisterRunner ==
    /\ pc = "register"
    /\ IF reg_args.none
       THEN /\ Goto("failed")
            /\ UNCHANGED <<remote, calls, idx, file_runners, runners>>
       ELSE LET c    == clients[CurUrl]
                desc == Description(reg_args.tags, reg_args.runner_type)
                call == [Call("create", CurUrl, "ok") EXCEPT
                            !.desc = desc, !.secret = c.admin_token]
            IN  \E outcome \in IF c.admin_token = Secret(CurUrl)
                               THEN {"token", "empty", "notoken", "error"}
                               ELSE {"error"} :
                   IF outcome = "error"
                   THEN /\ calls' = Append(calls, [call EXCEPT !.res = "error"])
                        /\ Goto("failed")
                        /\ UNCHANGED <<remote, idx, file_runners, runners>>
                   ELSE /\ calls' = Append(calls, [call EXCEPT
                               !.id = nextId,
                               !.token = Get(ResponseBody(outcome, nextId), "token")])
                        /\ registry' = [registry EXCEPT ![CurUrl] = @ \cup
                               {[id |-> nextId, description |-> desc,
                                 token |-> IssuedToken(nextId),
                                 tag_list |-> TagList(reg_args.tags,
                                                      reg_args.runner_type)]}]
                        /\ nextId' = nextId + 1
                        /\ StoreResult(ResponseBody(outcome, nextId))
    /\ UNCHANGED <<inputs, config_file, run, data, clients, todo, gitlab_tags,
                   reg_args, snap>>

\* template_kwargs: data["token"] of every runner; None or a record without a
\* token raises before config.toml is opened
KwargsDefined == \A n \in DOMAIN runners :
                     ~ IsNone(runners[n]) /\ "token" \in DOMAIN runners[n]

TemplateKwargs ==
    Update("hostname" :> env.hostname, [n \in DOMAIN runners |-> runners[n].token])

\* what open(config_file, "w") followed by template.format and write leaves in
\* config.toml: the rendered text, or nothing when format raises KeyError
Rendered(kwargs) ==
    IF config_template \subseteq DOMAIN kwargs
    THEN [k \in config_template |-> kwargs[k]]
    ELSE EmptyDict

UpdateRunnerConfig ==
    /\ pc = "config"
    /\ IF ~ KwargsDefined
       THEN Goto("failed") /\ UNCHANGED config_file
       ELSE /\ config_file' = Rendered(TemplateKwargs)
            /\ Goto(IF config_template \subseteq DOMAIN TemplateKwargs
                    THEN "done" ELSE "failed")
    /\ UNCHANGED <<inputs, remote, run, locals, calls, snap>>

Next ==
    \/ StartRun
    \/ CheckPermissions
    \/ ReadDecl
    \/ CreateClient
    \/ ListRunners
    \/ RunnerInfo
    \/ UpdateRunner
    \/ ValidRunnerToken
    \/ DeleteRunner
    \/ RegisterRunner
    \/ UpdateRunnerConfig

Spec == Init /\ [][Next]_vars

-----------------------------------------------------------------------------
(* Vocabulary of the properties *)

Finished == pc \in {"done", "failed"}

CallIdx == 1..Len(calls)

\* the description register_runner gives the runner of declaration i
DeclDescription(i) ==
    env.hostname \o "-" \o Get(templates[i].data, "executor")

\* the runners of a registry this host's discovery returns
OwnedBy(rs, hostname) == {r \in rs : hostname \in r.tag_list}

\* two declarations of the template set have the same name
HasDuplicate ==
    \E i, j \in 1..Len(templates) :
        i < j /\ Get(templates[i].data, "name") = Get(templates[j].data, "name")

-----------------------------------------------------------------------------
(* C1 *)

\* C1: when a run succeeded and the next run, with the same templates and the
\* registries as the first run left them, has finished, that run succeeded,
\* issued no create and no delete request, and left every token in config.toml
\* as it was.
C1_SecondRunIsNoOp ==
    (run = 2 /\ Len(outcomes) = 2 /\ outcomes[1] = "done") =>
        /\ outcomes[2] = "done"
        /\ \A i \in CallIdx : calls[i].op \notin {"create", "delete"}
        /\ config_file = config0

-----------------------------------------------------------------------------
(* C2 *)

\* C2: in a run that ended in failure, config.toml has the content it had when
\* the run started.
C2_FailureLeavesConfigUntouched ==
    pc = "failed" => config_file = config0

-----------------------------------------------------------------------------
(* C3 *)

\* C3: a list, get, create or delete request that failed with an HTTP error is
\* the last request of its run, and the run has ended with a failure status.
C3_AbortOnFirstHardError ==
    \A i \in CallIdx :
        (calls[i].op \in {"list", "get", "create", "delete"} /\ HardError(calls[i])) =>
            /\ i = Len(calls)
            /\ pc = "failed"
            /\ Len(outcomes) = run
            /\ outcomes[run] = "failed"

\* a run that failed on a create request, after its discovery succeeded
C3_Witness ==
    /\ pc = "failed"
    /\ Len(calls) >= 3
    /\ calls[Len(calls)].op = "create"
    /\ HardError(calls[Len(calls)])
    /\ \A i \in 1..(Len(calls) - 1) : ~ HardError(calls[i])

-----------------------------------------------------------------------------
(* C4 *)

\* C4: whenever a run has written config.toml, every declared executor holds a
\* registration record with a non-empty token.
C4_CompletenessGate ==
    pc = "done" =>
        \A n \in DOMAIN runners :
            /\ ~ IsNone(runners[n])
            /\ Get(runners[n], "token") # ""

-----------------------------------------------------------------------------
(* C5 *)

\* C5: when two declarations of the template set have the same name, a run in
\* which no request met an error ends in failure without having issued any
\* registry request.
C5_DuplicatesFailBeforeNetwork ==
    (HasDuplicate /\ Finished /\ \A i \in CallIdx : ~ HardError(calls[i])) =>
        (pc = "failed" /\ calls = <<>>)

-----------------------------------------------------------------------------
(* C6 *)

\* the runners of this host that registry u held when the run started and whose
\* description is that of no declared executor
Orphans(u) ==
    {r \in OwnedBy(registry0[u], env.hostname) :
        \A i \in 1..Len(templates) : r.description # DeclDescription(i)}

\* the registries the run has a client for
Contacted == DOMAIN clients

\* C6: a successful run has issued, on every registry it worked on, exactly one
\* delete request for every orphan and no create request for its description.
C6_OrphansPruned ==
    pc = "done" =>
        \A u \in Contacted : \A r \in Orphans(u) :
            /\ Cardinality({i \in CallIdx : /\ calls[i].op = "delete"
                                            /\ calls[i].url = u
                                            /\ calls[i].token = r.token}) = 1
            /\ \A i \in CallIdx :
                  ~ (calls[i].op = "create" /\ calls[i].url = u
                     /\ calls[i].desc = r.description)

-----------------------------------------------------------------------------
(* C7 *)

\* request j is the successful discovery that precedes request i: a list of the
\* same registry for the same declaration, followed before i by the successful
\* detail fetch of every runner it returned
DiscoveryFor(j, i) ==
    /\ j < i
    /\ calls[j].op = "list"
    /\ calls[j].res = "ok"
    /\ calls[j].url = calls[i].url
    /\ calls[j].decl = calls[i].decl
    /\ \A id \in calls[j].ret :
          \E k \in (j + 1)..(i - 1) :
              /\ calls[k].op = "get"
              /\ calls[k].res = "ok"
              /\ calls[k].url = calls[i].url
              /\ calls[k].id = id

\* C7: every create request of a run is preceded, in that run, by a list of
\* the same registry scoped to this host and by the detail fetch of every
\* runner the list returned.
C7_DiscoveryBeforeCreate ==
    \A i \in CallIdx :
        calls[i].op = "create" => \E j \in CallIdx : DiscoveryFor(j, i)

\* a create request issued after a discovery that returned a runner
C7_Witness ==
    \E i \in CallIdx :
        /\ calls[i].op = "create"
        /\ \E j \in CallIdx : DiscoveryFor(j, i) /\ calls[j].ret # {}

-----------------------------------------------------------------------------
(* C8 *)

-----------------------------------------------------------------------------
(* C9 *)

\* the successful create requests issued for declaration i
CreatesFor(i) ==
    {k \in CallIdx : calls[k].op = "create" /\ calls[k].res = "ok" /\ calls[k].decl = i}

\* declaration i has no token, and its registry held no runner of its
\* description when the run started
MissingExecutor(i) ==
    /\ Get(templates[i].data, "token") = ""
    /\ \A r \in registry0[Get(templates[i].data, "url")] :
          r.description # DeclDescription(i)

\* C9: after a successful run, every declared executor that had no token and
\* no matching remote runner has exactly one create request, made with the
\* registration secret of its registry, and config.toml holds for it the token
\* that request returned.
C9_RegistrationOfMissing ==
    pc = "done" =>
        \A i \in 1..Len(templates) :
            MissingExecutor(i) =>
                /\ Cardinality(CreatesFor(i)) = 1
                /\ \A k \in CreatesFor(i) :
                      /\ calls[k].secret = Secret(Get(templates[i].data, "url"))
                      /\ Get(templates[i].data, "name") \in DOMAIN config_file =>
                            config_file[Get(templates[i].data, "name")] = calls[k].token

-----------------------------------------------------------------------------
(* C10 *)

\* C10: every delete request of a run targets a runner that the run's
\* discovery returned, that is, a runner carrying this host's tag.
C10_DeleteTargetsDiscovered ==
    \A i \in CallIdx :
        calls[i].op = "delete" =>
            \E j \in 1..(i - 1) :
                /\ calls[j].op = "list"
                /\ calls[j].url = calls[i].url
                /\ \E r \in registry0[calls[i].url] \cup registry[calls[i].url] :
                      /\ r.id \in calls[j].ret
                      /\ env.hostname \in r.tag_list
                      /\ r.token = calls[i].token

-----------------------------------------------------------------------------
(* C11 *)

\* owner_only_permissions returned False for the prefix or the instance directory
PermissionCheckFails ==
    path_type = "Path" /\ \E i \in 1..2 : ~ owner_only_permissions(modes[i])

\* C11: once the permission check of a run has failed for the configuration
\* directory or the template directory, the run has ended with a failure
\* status, no declaration has been read and no registry request was issued.
C11_PermissionCheckFirst ==
    (run >= 1 /\ pc # "perm" /\ PermissionCheckFails) =>
        /\ pc = "failed"
        /\ outcomes[run] = "failed"
        /\ calls = <<>>
        /\ idx = 1
        /\ data = EmptyDict
        /\ clients = EmptyDict

\* a run over a directory with declarations, stopped by the permission check
C11_Witness ==
    /\ PermissionCheckFails
    /\ templates # <<>>
    /\ pc = "failed"
    /\ run = 1

-----------------------------------------------------------------------------
(* C12 *)

\* the state before the first run, for given inputs and registries
IdleState ==
    /\ nextId = 4
    /\ config_file = OldConfig
    /\ run = 0
    /\ pc = "idle"
    /\ idx = 1
    /\ data = EmptyDict
    /\ clients = EmptyDict
    /\ file_runners = EmptyDict
    /\ runners = EmptyDict
    /\ todo = <<>>
    /\ gitlab_tags = {}
    /\ reg_args = [runner_type |-> "", none |-> TRUE, tags |-> <<>>]
    /\ calls = <<>>
    /\ registry0 = registry
    /\ config0 = config_file
    /\ outcomes = <<>>

\* every combination of the nine permission bits of st_mode
Modes == 0..511

\* st.st_mode & stat.S_IRWXO
OtherBits(mode) == mode % 8

\* the permission check on directories of every mode: one directory varies,
\* the other has mode 0700
InitPerm ==
    /\ templates = <<>>
    /\ config_template = {"hostname", "a"}
    /\ modes \in {<<m, 448>> : m \in Modes} \cup {<<448, m>> : m \in Modes}
    /\ path_type = "Path"
    /\ env = Host
    /\ registry = [u \in Urls |-> IF u = U1 THEN {Foreign} ELSE {}]
    /\ IdleState

NextPerm ==
    \/ StartRun
    \/ CheckPermissions

SpecPerm == InitPerm /\ [][NextPerm]_vars

\* C12: the permission check lets a run pass if and only if, on both
\* directories, neither group nor other has any permission bit.
C12_OwnerOnlyPredicate ==
    (run >= 1 /\ pc # "perm") =>
        (pc = "read" <=>
            \A i \in 1..2 : GroupBits(modes[i]) = 0 /\ OtherBits(modes[i]) = 0)

-----------------------------------------------------------------------------
(* C13, C14, C15 *)

\* socket.gethostname() of the hosts a run may be on
Hostnames == {"node03", "n0de03", "node", "r2d2x", "7up4"}

\* the launchers generate_tags probes for
Launchers == <<"bsub", "salloc", "cqsub">>

\* one declaration per run: each executor type, and one holding a token the
\* registry does not know
TagDecls ==
    { BaseDecl,
      [BaseDecl EXCEPT !.executor = "batch"],
      [BaseDecl EXCEPT !.executor = "bogus"],
      [BaseDecl EXCEPT !.token = "stale"] }

\* runs on every host and every search path
InitTags ==
    /\ \E d \in TagDecls : templates = <<[file |-> 1, data |-> d]>>
    /\ config_template = {"hostname", "a"}
    /\ modes = <<448, 448>>
    /\ path_type = "Path"
    /\ env \in [hostname : Hostnames, path : SUBSET ToSet(Launchers)]
    /\ \E S \in SUBSET {Own} :
          registry = [u \in Urls |-> IF u = U1 THEN {Foreign} \cup S ELSE {}]
    /\ IdleState

SpecTags == InitTags /\ [][Next]_vars

SchedulerTag == [c \in ToSet(Launchers) |->
                    IF c = "bsub" THEN "lsf"
                    ELSE IF c = "salloc" THEN "slurm" ELSE "cobalt"]

\* what the claim expects after the identity tags
ExpectedScheduler(runner_type, path) ==
    LET present == {i \in 1..Len(Launchers) : Launchers[i] \in path}
    IN  IF runner_type # "batch" \/ present = {} THEN <<>>
        ELSE <<SchedulerTag[Launchers[CHOOSE i \in present :
                                          \A j \in present : i <= j]]>>

\* update_runner has called generate_tags and is about to call register_runner
TagsGenerated == pc = "register" /\ ~ reg_args.none

\* C13: the tag list generate_tags returns holds, after the two identity tags,
\* exactly the scheduler tag of the first launcher present on the search path
\* in the order bsub, salloc, cqsub when the executor type is batch, and
\* nothing otherwise; it never holds more than one scheduler tag.
C13_SchedulerTag ==
    TagsGenerated =>
        LET tags == reg_args.tags
        IN  /\ Len(tags) >= 2
            /\ SubSeq(tags, 3, Len(tags)) =
                   ExpectedScheduler(reg_args.runner_type, env.path)
            /\ Cardinality({i \in 1..Len(tags) :
                   tags[i] \in {"lsf", "slurm", "cobalt"}}) <= 1

C13_Witness ==
    /\ TagsGenerated
    /\ reg_args.runner_type = "batch"
    /\ {"bsub", "salloc", "cqsub"} \subseteq env.path
    /\ reg_args.tags[3] = "lsf"

\* s without the digits it ends in
RECURSIVE StripTrailingDigits(_)
StripTrailingDigits(s) ==
    IF Len(s) = 0 THEN ""
    ELSE IF SubSeq(s, Len(s), Len(s)) \in Digits
         THEN StripTrailingDigits(SubSeq(s, 1, Len(s) - 1))
         ELSE s

\* C14: the generated tag list starts with the hostname followed by the
\* hostname with only its trailing digits stripped.
C14_IdentityTags ==
    TagsGenerated =>
        /\ reg_args.tags[1] = env.hostname
        /\ reg_args.tags[2] = StripTrailingDigits(env.hostname)

\* the executor kinds the declarations may name
RecognizedExecutors == {"shell", "batch", "docker"}

HasUnrecognizedExecutor ==
    \E i \in 1..Len(templates) :
        Get(templates[i].data, "executor") \notin RecognizedExecutors

\* C15: a run over a declaration of an unrecognized executor type fails, no
\* tag list is produced for it and no registry call is issued.
C15_UnrecognizedExecutorFatal ==
    (HasUnrecognizedExecutor /\ Finished
        /\ \A i \in CallIdx : ~ HardError(calls[i])) =>
        /\ pc = "failed"
        /\ calls = <<>>
        /\ reg_args.tags = <<>>

-----------------------------------------------------------------------------
(* C16 *)

\* C16: whenever register_runner is called, from either path of update_runner,
\* its tags argument is a non-empty list whose first element is the hostname.
C16_RegistrationTagsWellFormed ==
    pc = "register" =>
        /\ ~ reg_args.none
        /\ Len(reg_args.tags) > 0
        /\ reg_args.tags[1] = env.hostname

-----------------------------------------------------------------------------
(* C17 *)

\* the requests of kind op a log holds for declaration i
RequestsIn(log, op, i) ==
    {j \in 1..Len(log) : log[j].op = op /\ log[j].decl = i}

\* update_runner_token at its call of register_runner
ReRegistering == pc = "register" /\ reg_args.none

\* C17: in update_runner_token, a rejected non-empty token leads to exactly one
\* delete for that token, completed before exactly one create; an empty token
\* leads to a create with no delete; a valid token leads to neither.
C17_DeleteThenReRegister ==
    [][ /\ ReRegistering =>
              /\ Len(calls') = Len(calls) + 1
              /\ RequestsIn(calls', "create", idx) = {Len(calls')}
              /\ IF CurTok = ""
                 THEN RequestsIn(calls, "delete", idx) = {}
                 ELSE /\ RequestsIn(calls, "delete", idx) = {Len(calls)}
                      /\ calls[Len(calls)].token = CurTok
                      /\ calls[Len(calls)].res = "ok"
        /\ (pc = "verify" /\ pc' = "read") =>
              /\ RequestsIn(calls', "delete", idx) = {}
              /\ RequestsIn(calls', "create", idx) = {}
      ]_vars

-----------------------------------------------------------------------------
(* C18 *)

\* request i is a token verification the registry answered with 403
Rejected(i) == calls[i].op = "verify" /\ calls[i].res = "403"

\* request i is the last of the run, and the run has failed
EndsRun(i) == i = Len(calls) /\ pc = "failed"

\* C18: a token the registry accepts is taken for valid and nothing is deleted
\* or created for its declaration; on a 403 the run goes on as for an invalid
\* token, with the delete of that token; on any other HTTP error of the
\* verification the run fails there. The 403 of a verification is the only
\* registry error after which the run goes on.
C18_VerificationOutcome ==
    \A i \in CallIdx :
        /\ (calls[i].op = "verify" /\ calls[i].res = "ok") =>
              /\ idx > calls[i].decl
              /\ RequestsIn(calls, "delete", calls[i].decl) = {}
              /\ RequestsIn(calls, "create", calls[i].decl) = {}
        /\ Rejected(i) =>
              \/ i = Len(calls) /\ pc = "delete"
              \/ /\ i < Len(calls)
                 /\ calls[i + 1].op = "delete"
                 /\ calls[i + 1].decl = calls[i].decl
                 /\ calls[i + 1].token = calls[i].token
        /\ (calls[i].res # "ok" /\ ~ Rejected(i)) => EndsRun(i)

C18_Witness ==
    \E i \in CallIdx :
        /\ Rejected(i)
        /\ i < Len(calls)
        /\ calls[i + 1].op = "delete"
        /\ calls[i + 1].res = "ok"

-----------------------------------------------------------------------------
(* C19 *)

\* the first declaration read in this run that names the registry url
FirstWithUrl(url) ==
    CHOOSE i \in 1..idx :
        /\ Get(templates[i].data, "url") = url
        /\ \A j \in 1..(i - 1) : Get(templates[j].data, "url") # url

\* create_client has returned the client of the declaration being read
ClientReturned == pc = "list"

\* the client of the current declaration is the one built from the first
\* declaration naming its registry
ClientFromFirst ==
    LET first == templates[FirstWithUrl(CurUrl)].data
    IN  /\ CurUrl \in DOMAIN clients
        /\ clients[CurUrl].base_url = CurUrl
        /\ clients[CurUrl].admin_token = Get(first, "admin_token")
        /\ clients[CurUrl].access_token = Get(first, "access_token")

\* C19: after every create_client call the registry url has one client, built
\* from the credentials of the first declaration naming that url, and the
\* executor's data holds neither admin_token nor access_token.
C19_ClientCacheAndStripping ==
    ClientReturned =>
        /\ ClientFromFirst
        /\ "admin_token" \notin DOMAIN data
        /\ "access_token" \notin DOMAIN data

=============================================================================
